---- MODULE Spec2Model ----
(***************************************************************************)
(* Model of src/python/zbx_vsphere_status.py: class TargetConnection.       *)
(*                                                                         *)
(* Every public method of TargetConnection is one action.  The methods are *)
(* written as operators over a "world" record w (the state of the process  *)
(* plus the cookie file), so that a method that calls other methods        *)
(* (query_target -> connect -> retrieve_systeminfo -> query_target) is     *)
(* still one atomic step, as in the single-threaded program.               *)
(*                                                                         *)
(* The server is an input: every action draws the replies the server gives *)
(* to the requests of that call from small sets.  Replies are described by *)
(* what the code looks at: byte offsets of the two fault markers and of    *)
(* the <token> element (the code inspects only the first 512 bytes), and   *)
(* the decoded content of the body.                                        *)
(***************************************************************************)
EXTENDS Integers, Sequences, FiniteSets, TLC

VARIABLES
    systeminfo,     \* TargetConnection.systeminfo : ONE dict object of the class
    hostsystems,    \* TargetConnection.hostsystems: ONE dict object of the class
    cookie_file,    \* the file host_cookie_file on disk
    connection,     \* self.__connection, per instance
    server_cookie,  \* self.server_cookie, per instance
    last_update,    \* self.last_update, per instance
    licenses,       \* self.licenses, per instance (rebound in retrieve_licenses)
    datastores,     \* self.datastores, per instance (rebound in retrieve_datastores)
    hostdetails,    \* self.hostdetails, per instance (rebound in __hostdetails)
    opt_direct,     \* self.opt_direct, per instance
    privileged,     \* does the process bypass file permission bits (uid 0)
    last,           \* history: the last call, its outcome and what it did
    ncalls,         \* history: number of calls made so far
    connect_failed, \* history: the instances whose latest connect() has raised
    invalidated     \* history: per instance, the cookie it held when it last
                    \* removed the cookie file

vars == << systeminfo, hostsystems, cookie_file, connection, server_cookie,
           last_update, licenses, datastores, hostdetails, opt_direct,
           privileged, last, ncalls, connect_failed, invalidated >>

----------------------------------------------------------------------------
(* Bounds *)

\* number of method calls in one run
MaxCalls == 2
\* largest number of pages the server offers for one query
MaxPages == 2
\* largest adapter number of a multipath entry (vmhba0 .. vmhba<MaxSuffix>)
MaxSuffix == 163
\* largest number of propSets, and of identifiers, in one decoded object
MaxItems == 3

\* the TargetConnection instances of the process (all for the same host)
Sessions == {1, 2}

----------------------------------------------------------------------------
(* Program constants *)

\* response_data[..][:512]
PrefixLen == 512
\* "while retry <= 1" and "if retry <= 1"
RetryLimit == 1
\* os.chmod(self.host_cookie_file, 600): a decimal literal
CookieMode == 600
\* mode of a file created by open(.., "w") under umask 022 (0o644)
DefaultMode == 420
\* len("NotAuthenticatedFault")
LenMarkerA == 21
\* len('<fault xsi:type="NotAuthenticated">')
LenMarkerB == 35
\* len("<token>") + len("</token>") + one character of token
LenToken == 16

None == "None"
NoExc == "none"
Absent == [exists |-> FALSE, content |-> "", mode |-> 0]

\* the systemfields that payload templates refer to, and apiType (line 108)
Handles == {"sessionManager", "propertyCollector", "rootFolder", "licenseManager"}
Fields == Handles \cup {"apiType"}

\* %(...)s placeholders of each payload template that come from systeminfo
Needs(payload) ==
    CASE payload = "systeminfo"  -> {}
      [] payload = "login"       -> {"sessionManager"}
      [] payload = "logout"      -> {"sessionManager"}
      [] payload = "hostsystems" -> {"propertyCollector", "rootFolder"}
      [] payload = "hostdetails" -> {"propertyCollector", "rootFolder"}
      [] payload = "licenses"    -> {"propertyCollector", "licenseManager"}
      [] payload = "datastores"  -> {"propertyCollector", "rootFolder"}

----------------------------------------------------------------------------
(* Replies of the server *)

\* A reply: offsets (-1: not present) of marker A "NotAuthenticatedFault",
\* of marker B '<fault xsi:type="NotAuthenticated">' and of <token>..</token>
\* in the body; whether the server drops the connection instead of
\* answering (reset); how many pages the
\* server has for the query; and the content the decoders find in the body:
\*   fields    metadata fields (RetrieveServiceContent)
\*   invalid   the body contains "InvalidLogin"
\*   setcookie the Set-Cookie header
\*   hosts     <obj type="HostSystem"> reference -> name (host list)
\*   details   the <objects> blocks of the host details: reference and the
\*             <propSet> elements of the object
\*   lics      the LicenseManagerLicenseInfo nodes
\*   stores    <obj type="Datastore"> reference -> properties
Reply(offA, offB, offTok, reset, npages) ==
    [ offA |-> offA, offB |-> offB, offTok |-> offTok, reset |-> reset,
      npages |-> npages,
      fields |-> << >>, invalid |-> FALSE, setcookie |-> None,
      hosts |-> << >>, details |-> << >>, lics |-> << >>, stores |-> << >> ]

Clean == Reply(-1, -1, -1, FALSE, 1)

\* the shapes of a first page
Shapes ==
    { Clean,
      Reply(300, -1, -1, FALSE, 1),     \* marker A in the inspected prefix
      Reply(500, -1, -1, FALSE, 1),     \* marker A cut by the prefix
      Reply(-1, 330, -1, FALSE, 1),     \* marker B in the inspected prefix
      Reply(-1, -1, -1, TRUE, 1) }      \* connection dropped, no reply
    \cup { Reply(-1, -1, 400, FALSE, n) : n \in 2..MaxPages }  \* more pages

\* text[:512] contains a string of length len that starts at offset off
InPrefix(off, len) == off >= 0 /\ off + len <= PrefixLen

\* the first pages a query can get: a clean page with one of the bodies, or
\* one of the other shapes
Replies(field, values) ==
    { [Clean EXCEPT ![field] = v] : v \in values } \cup (Shapes \ {Clean})

\* the metadata a RetrieveServiceContent reply can carry: field -> value
AllFields(api) == [f \in Fields |-> IF f = "apiType" THEN api ELSE "ref"]
MetaBodies ==
    { << >>,
      AllFields("VirtualCenter"),
      [f \in Handles |-> "ref"],
      [f \in {"apiType"} |-> "HostAgent"] }

MetaReplies ==
    { [Clean EXCEPT !.fields = b] : b \in MetaBodies }
    \cup { Reply(300, -1, -1, FALSE, 1), Reply(-1, 330, -1, FALSE, 1),
           Reply(-1, -1, -1, TRUE, 1) }

\* the cookies the server hands out
Cookies == {"c1", "c2"}
LoginReplies ==
    Replies("setcookie", Cookies \cup {None})
    \cup { [Clean EXCEPT !.invalid = TRUE] }

HostReplies ==
    Replies("hosts", { << >>, [o \in {"host-1"} |-> "esx1"] })

\* the property paths that have a decoder of their own (eval_functions)
MultipathPath == "config.multipathState.path"
OtherInfoPath == "hardware.systemInfo.otherIdentifyingInfo"
CpuPkgPath == "hardware.cpuPkg"
PciDevicePath == "hardware.pciDevice"
NumericSensorPath ==
    "runtime.healthSystemRuntime.systemHealthInfo.numericSensorInfo"

SensorPaths ==
    { NumericSensorPath,
      "runtime.healthSystemRuntime.hardwareStatusInfo.storageStatusInfo",
      "runtime.healthSystemRuntime.hardwareStatusInfo.cpuStatusInfo",
      "runtime.healthSystemRuntime.hardwareStatusInfo.memoryStatusInfo" }

\* A <propSet>: its name, the raw text of its <val>, and what the patterns
\* of the decoders find in that text:
\*   paths    <name>vmhba{hba}:..:{lun}</name><pathState>{state}</pathState>
\*   ids      <identifierValue>{value}</identifierValue>..<key>{key}</key>
\*   entries  the groups of eval_propset_block: element -> text
\*   sensors  the groups of the sensor patterns: name, label, summary, key
\*            and (the four groups of the numeric pattern) reading
PropSet(name, text) ==
    [ name |-> name, text |-> text,
      paths |-> << >>, ids |-> << >>, entries |-> << >>, sensors |-> << >> ]

\* an <objects> block: <obj type="HostSystem">{obj}</obj> and its propSets
\* (the blocks of one reply carry different references)
Obj(obj, propset) == [ obj |-> obj, propset |-> propset ]

DetailReplies ==
    Replies("details",
            { << >>,
              << Obj("host-1", << PropSet("name", "esx1") >>) >>,
              << Obj("host-1", << PropSet("name", "esx1") >>),
                 Obj("host-2", << PropSet("name", "esx1") >>) >>,
              << Obj("host-1", << PropSet("name", "esx1") >>),
                 Obj("host-2", << >>) >> })

Lic(name, used, total) == [name |-> name, used |-> used, total |-> total]
LicenseReplies ==
    Replies("lics",
            { << >>,
              << Lic("std", "3", "10") >>,
              << Lic("std", "3", "10"), Lic("eval", "0", "0"),
                 Lic("ent", "1", "5") >> })

StoreReplies ==
    Replies("stores", { << >>, [o \in {"datastore-1"} |-> "ds1"] })

Payloads == { "systeminfo", "login", "logout", "hostsystems", "hostdetails",
              "licenses", "datastores" }

----------------------------------------------------------------------------
(* The world record and the history of one call *)


World ==
    [ sys |-> systeminfo, hs |-> hostsystems, file |-> cookie_file,
      conn |-> connection, cookie |-> server_cookie, lu |-> last_update,
      lic |-> licenses, ds |-> datastores, hd |-> hostdetails,
      od |-> opt_direct, priv |-> privileged,
      exc |-> NoExc, ev |-> << >>, ret |-> Clean ]

\* an event of the history: what was done (t), for which payload (kind),
\* with which Cookie header (cookie), and the reply that was read (reply)
Ev(t, kind, cookie, reply) ==
    [ t |-> t, kind |-> kind, cookie |-> cookie, reply |-> reply ]

Emit(w, e) == [w EXCEPT !.ev = Append(@, e)]
Raise(w, x) == [w EXCEPT !.exc = x]

----------------------------------------------------------------------------
(* TargetConnection *)
(* A statement that follows a call is written as an operator on the world  *)
(* the call returns; it is skipped when an exception is pending.           *)

Pending(w) == w.exc # NoExc

\* close() without the test "if self.__connection"
close_unguarded(w, s) ==
    IF w.conn[s] # None
    THEN Emit([w EXCEPT !.conn[s] = "closed"], Ev("close", "", None, Clean))
    ELSE Raise(w, "AttributeError")

\* close(): "if self.__connection: self.__connection.close()"
close(w, s) ==
    IF w.conn[s] # None
    THEN Emit([w EXCEPT !.conn[s] = "closed"], Ev("close", "", None, Clean))
    ELSE w

\* __removeCookie() with "self.server_cookie = None" after the unlink
removeCookie_forget(w, s, env) ==
    IF w.file.exists
    THEN IF env.rm
         THEN Emit([w EXCEPT !.file = Absent, !.cookie[s] = None],
                   Ev("unlink", "", None, Clean))
         ELSE Raise(Emit(w, Ev("unlink_failed", "", None, Clean)),
                    "PermissionError")
    ELSE w

\* __removeCookie(): unlink the cookie file if it exists; os.unlink raises
\* when the file cannot be removed (env.rm: can it)
removeCookie(w, s, env) ==
    IF w.file.exists
    THEN IF env.rm
         THEN Emit([w EXCEPT !.file = Absent], Ev("unlink", "", None, Clean))
         ELSE Raise(Emit(w, Ev("unlink_failed", "", None, Clean)),
                    "PermissionError")
    ELSE w

\* check_not_authenticated with the first test lost: only marker B is seen
check_not_authenticated_onlyB(w, s, page, retry, env) ==
    IF InPrefix(page.offB, LenMarkerB)
    THEN IF retry <= RetryLimit
         THEN removeCookie(w, s, env)
         ELSE Raise(w, "QueryServerException")
    ELSE w

\* check_not_authenticated(text, retry), text being the first 512 bytes
check_not_authenticated(w, s, page, retry, env) ==
    IF InPrefix(page.offA, LenMarkerA)
    THEN Raise(w, "QueryServerException")
    ELSE IF InPrefix(page.offB, LenMarkerB)
         THEN IF retry <= RetryLimit
              THEN removeCookie(w, s, env)
              ELSE Raise(w, "QueryServerException")
         ELSE w

\* retry = 0; while retry <= 1: retry += 1; check_not_authenticated(.., retry)
RECURSIVE retry_loop(_, _, _, _, _)
retry_loop(w, s, page, retry, env) ==
    IF Pending(w) \/ ~ (retry <= RetryLimit)
    THEN w
    ELSE retry_loop(check_not_authenticated(w, s, page, retry + 1, env),
                    s, page, retry + 1, env)

\* the "while True" loop: a token in the first 512 bytes of the last page
\* leads to line 343, which evaluates the undefined name xml_continuetoken
\* (NameError) before anything is sent; no token ends the loop
pagination_loop(w, s, page) ==
    IF Pending(w) THEN w
    ELSE IF InPrefix(page.offTok, LenToken)
    THEN Raise(w, "NameError")
    ELSE w

\* init_headers: the Cookie header is set only "if self.server_cookie"
CookieHeader(w, s) ==
    IF w.cookie[s] \in {None, ""} THEN None ELSE w.cookie[s]

\* http.client opens the socket of a connection object: connect(), and
\* request() on a closed connection (auto_open); it fails when the server
\* cannot be reached
open_socket(w, s, env) ==
    IF Pending(w) \/ w.conn[s] = "open" THEN w
    ELSE IF env.up
    THEN Emit([w EXCEPT !.conn[s] = "open"], Ev("connect", "", None, Clean))
    ELSE Raise(w, "OSError")

\* the request goes out with the headers of init_headers
send_request(w, s, payload) ==
    IF Pending(w) THEN w
    ELSE Emit(w, Ev("req", payload, CookieHeader(w, s), Clean))

\* self.__connection.request("POST", "/sdk", soapdata, headers)
request(w, s, payload, env) ==
    send_request(open_socket(w, s, env), s, payload)

\* getresponse() and read(): when the server drops the connection,
\* http.client closes the socket and raises RemoteDisconnected
getresponse(w, s, payload, srv) ==
    IF Pending(w) THEN w
    ELSE IF srv.reset
    THEN Raise([w EXCEPT !.conn[s] = "closed"], "ConnectionError")
    ELSE Emit(w, Ev("resp", payload, None, srv))

\* payload % payload_params: every placeholder needs a key
format_payload(w, payload, params) ==
    IF Pending(w) THEN w
    ELSE IF (Needs(payload) \cup
               (IF payload = "login" THEN {"username", "password"} ELSE {}))
            \subseteq (DOMAIN w.sys \cup params)
    THEN w
    ELSE Raise(w, "KeyError")

\* "return response.status, .., response_data[0]": the first page
return_reply(w, srv) ==
    IF Pending(w) THEN w ELSE [w EXCEPT !.ret = srv]

RECURSIVE query_target(_, _, _, _, _, _)
RECURSIVE retrieve_systeminfo(_, _, _, _)
RECURSIVE connect(_, _, _)

\* "if not self.systeminfo: raise WebApiException"
check_systeminfo(w) ==
    IF Pending(w) THEN w
    ELSE IF DOMAIN w.sys = {} THEN Raise(w, "WebApiException")
    ELSE w

\* the try block of connect(): new connection object, open it, fetch the
\* metadata, check it
connect_try(w, s, env) ==
    check_systeminfo(
        retrieve_systeminfo(
            open_socket([w EXCEPT !.conn[s] = "closed"], s, env),
            s, env.meta, env))

\* "except: self.close(); raise"
connect_except(w, s) ==
    IF Pending(w)
    THEN Emit(close(w, s), Ev("connect_raise", w.exc, None, Clean))
    ELSE w

\* an except clause that re-raises without "self.close()"
connect_except_noclose(w, s) ==
    IF Pending(w)
    THEN Emit(w, Ev("connect_raise", w.exc, None, Clean))
    ELSE w

\* connect() with that except clause
connect_noclose(w, s, env) == connect_except_noclose(connect_try(w, s, env), s)

\* connect()
connect(w, s, env) == connect_except(connect_try(w, s, env), s)

\* the loop of retrieve_systeminfo(): store every field found in the reply
\* in the systeminfo dict; then read systeminfo['apiType']
store_systeminfo(w, s) ==
    IF Pending(w) THEN w
    ELSE IF "apiType" \in DOMAIN w.ret.fields \cup DOMAIN w.sys
    THEN [w EXCEPT !.sys = w.ret.fields @@ @,
                   !.od[s] = ((w.ret.fields @@ w.sys)["apiType"] = "HostAgent")]
    ELSE Raise([w EXCEPT !.sys = w.ret.fields @@ @], "KeyError")

\* retrieve_systeminfo()
retrieve_systeminfo(w, s, srv, env) ==
    store_systeminfo(query_target(w, s, "systeminfo", {}, srv, env), s)

\* "if not self.__connection: self.connect()"
connect_if_needed(w, s, env) ==
    IF w.conn[s] = None THEN connect(w, s, env) ELSE w

\* query_target(payload, payload_params): srv is the first page the server
\* answers with, params the keys of payload_params
query_target(w, s, payload, params, srv, env) ==
    IF Pending(w) THEN w
    ELSE
    return_reply(
      pagination_loop(
        retry_loop(
          getresponse(
            request(
              format_payload(connect_if_needed(w, s, env), payload, params),
              s, payload, env),
            s, payload, srv),
          s, srv, 0, env),
        s, srv),
      srv)

----------------------------------------------------------------------------
(* The other public methods *)

\* may the process open the cookie file for reading
CanRead(w) == w.priv \/ (w.file.mode \div 256) % 2 = 1

\* the branch of login() that finds a cookie file
login_from_file(w, s) ==
    IF CanRead(w)
    THEN Emit([w EXCEPT !.lu[s] = "mtime", !.cookie[s] = w.file.content],
              Ev("read", "", w.file.content, Clean))
    ELSE Raise([w EXCEPT !.lu[s] = "mtime"], "PermissionError")

\* the end of login(): the reply to the Login request is in w.ret
login_reply(w, s) ==
    IF Pending(w) THEN w
    ELSE IF w.ret.invalid
    THEN [w EXCEPT !.lu[s] = "message"]
    ELSE IF w.ret.setcookie \notin {None, ""}
         THEN Emit([w EXCEPT !.cookie[s] = w.ret.setcookie,
                             !.file = [exists |-> TRUE,
                                       content |-> w.ret.setcookie,
                                       mode |-> CookieMode]],
                   Ev("write", "", w.ret.setcookie, Clean))
         ELSE [w EXCEPT !.cookie[s] = w.ret.setcookie]

\* login(): take the cookie from the cookie file if there is one, else send
\* a Login request and store the cookie of the reply in the file
login(w, s, srv, env) ==
    IF w.file.exists
    THEN login_from_file(w, s)
    ELSE login_reply(
             query_target(w, s, "login", {"username", "password"}, srv, env), s)

\* "self.__removeCookie()" after the Logout query
logout_remove(w, s, env) ==
    IF Pending(w) THEN w ELSE removeCookie(w, s, env)

\* an except clause that lets the exception pass
logout_except_raise(w) == w

\* "except: pass"
logout_except(w) ==
    IF Pending(w)
    THEN Emit([w EXCEPT !.exc = NoExc], Ev("swallow", w.exc, None, Clean))
    ELSE w

\* logout(): "try: query_target(logout); __removeCookie()  except: pass"
logout(w, s, srv, env) ==
    logout_except(
        logout_remove(query_target(w, s, "logout", {}, srv, env), s, env))

\* The keys of a properties dict are strings: a property path, or a path
\* made by "%s.%s.%s" / "...%s.%d" formatting from a path, a sub-key and an
\* id.  A key is written as the triple of its parts.
Key(path, sub, id) == << path, sub, id >>
Plain(path) == Key(path, "", "")

\* dict.get / dict.setdefault: the value under k, or the default
Get(f, k, default) == IF k \in DOMAIN f THEN f[k] ELSE default

\* lines 191-196 with "% 64 < 32" in the first test
lun_label_lt32(hba_num) ==
    IF hba_num >= 32 /\ hba_num % 64 < 32 THEN "pseudo-logical"
    ELSE IF hba_num >= 32 /\ hba_num % 64 > 32 THEN "logical"
    ELSE "physical"

\* lines 191-196 with the tests limited to hba_num < 96
lun_label_below96(hba_num) ==
    IF hba_num >= 32 /\ hba_num < 96 /\ hba_num % 64 < 33 THEN "pseudo-logical"
    ELSE IF hba_num >= 32 /\ hba_num < 96 /\ hba_num % 64 > 32 THEN "logical"
    ELSE "physical"

\* eval_multipath_state, lines 191-196: the label appended to the LUN id
lun_label(hba_num) ==
    IF hba_num >= 32 /\ hba_num % 64 < 33 THEN "pseudo-logical"
    ELSE IF hba_num >= 32 /\ hba_num % 64 > 32 THEN "logical"
    ELSE "physical"

\* lines 198-201 with "= 1" for "+= 1"
count_path_once(props, propname, p) ==
    LET luns == Get(props, Plain(propname), << >>)
        lun_id == << p.lun, lun_label(p.hba) >>
        lun == Get(luns, lun_id, [ states |-> << >>, adapters |-> << >> ])
    IN  (Plain(propname) :>
           ((lun_id :>
               [ states |-> (p.state :> 1) @@ lun.states,
                 adapters |-> Append(lun.adapters, << p.hba, p.lun >>) ])
            @@ luns))
        @@ props

\* eval_multipath_state, lines 186-201, for one path: count the path state
\* and list the adapter under the labelled LUN id
count_path(props, propname, p) ==
    LET luns == Get(props, Plain(propname), << >>)
        lun_id == << p.lun, lun_label(p.hba) >>
        lun == Get(luns, lun_id, [ states |-> << >>, adapters |-> << >> ])
    IN  (Plain(propname) :>
           ((lun_id :>
               [ states |-> (p.state :> (Get(lun.states, p.state, 0) + 1))
                               @@ lun.states,
                 adapters |-> Append(lun.adapters, << p.hba, p.lun >>) ])
            @@ luns))
        @@ props

\* eval_multipath_state: the loop over the paths from position i on
RECURSIVE eval_multipath_state(_, _, _, _)
eval_multipath_state(props, propname, paths, i) ==
    IF i > Len(paths) THEN props
    ELSE eval_multipath_state(count_path(props, propname, paths[i]),
                              propname, paths, i + 1)

\* eval_propset_block, lines 211-213: the elements of one match from j on
RECURSIVE append_entry(_, _, _, _, _, _)
append_entry(props, propname, elements, id_key, entry, j) ==
    IF j > Len(elements) THEN props
    ELSE append_entry(
             (Key(propname, elements[j], entry[id_key]) :>
                Append(Get(props, Key(propname, elements[j], entry[id_key]),
                           << >>),
                       entry[elements[j]]))
             @@ props,
             propname, elements, id_key, entry, j + 1)

\* eval_propset_block: the loop over the matches from position i on
RECURSIVE eval_propset_block(_, _, _, _, _, _)
eval_propset_block(props, propname, elements, id_key, entries, i) ==
    IF i > Len(entries) THEN props
    ELSE eval_propset_block(
             append_entry(props, propname, elements, id_key, entries[i], 1),
             propname, elements, id_key, entries, i + 1)

\* eval_cpu_pkg
eval_cpu_pkg(props, propname, entries) ==
    eval_propset_block(props, propname,
                       << "index", "vendor", "hz", "busHz", "description" >>,
                       "index", entries, 1)

\* eval_pci_device
eval_pci_device(props, propname, entries) ==
    eval_propset_block(props, propname, << "id", "vendorName", "deviceName" >>,
                       "id", entries, 1)

\* lines 226-229 without the counter: every occurrence gets index 0
next_index_zero(keys_index, key) == 0

\* the index eval_systeminfo_other gives to the next occurrence of key
next_index(keys_index, key) ==
    IF key \in DOMAIN keys_index THEN keys_index[key] + 1 ELSE 0

\* eval_systeminfo_other: the loop over the (value, key) pairs from i on;
\* "%d" % idx is ToString(idx)
RECURSIVE eval_systeminfo_other(_, _, _, _)
eval_systeminfo_other(props, ids, i, keys_index) ==
    IF i > Len(ids) THEN props
    ELSE eval_systeminfo_other(
             (Key(OtherInfoPath, ids[i].key,
                  ToString(next_index(keys_index, ids[i].key)))
                :> << ids[i].value >>) @@ props,
             ids, i + 1,
             (ids[i].key :> next_index(keys_index, ids[i].key)) @@ keys_index)

\* line 249 keeping only the last value of a path
append_verbatim_last(props, p) ==
    (Plain(p.name) :> << p.text >>) @@ props

\* line 249: properties.setdefault(current_propname, []).append(value)
append_verbatim(props, p) ==
    (Plain(p.name) :> Append(Get(props, Plain(p.name), << >>), p.text))
    @@ props

\* lines 246-249: the decoder of the property, or the fallback that appends
\* the raw text to the list under the path (the sensor decoders fill
\* hostsystems_sensors: eval_sensors)
eval_property(props, p) ==
    CASE p.name = MultipathPath ->
            eval_multipath_state(props, p.name, p.paths, 1)
      [] p.name = OtherInfoPath ->
            eval_systeminfo_other(props, p.ids, 1, << >>)
      [] p.name = CpuPkgPath -> eval_cpu_pkg(props, p.name, p.entries)
      [] p.name = PciDevicePath -> eval_pci_device(props, p.name, p.entries)
      [] p.name \in SensorPaths -> props
      [] OTHER -> append_verbatim(props, p)

\* the loop of line 245 over the propSets of one object from position i on
RECURSIVE eval_properties(_, _, _)
eval_properties(props, propset, i) ==
    IF i > Len(propset) THEN props
    ELSE eval_properties(eval_property(props, propset[i]), propset, i + 1)

\* eval_sensor_info: hostsystems_sensors[hostname][name] = {the 8 groups},
\* for the matches from position i on
RECURSIVE eval_sensor_info(_, _, _)
eval_sensor_info(sensors, found, i) ==
    IF i > Len(found) THEN sensors
    ELSE eval_sensor_info((found[i].name :> found[i]) @@ sensors, found, i + 1)

\* eval_hardwarestatus_info: the same with name, label, summary and key
RECURSIVE eval_hardwarestatus_info(_, _, _)
eval_hardwarestatus_info(sensors, found, i) ==
    IF i > Len(found) THEN sensors
    ELSE eval_hardwarestatus_info(
             (found[i].name :>
                [ name |-> found[i].name, label |-> found[i].label,
                  summary |-> found[i].summary, key |-> found[i].key ])
             @@ sensors,
             found, i + 1)

\* the loop of line 245 as far as it fills hostsystems_sensors[hostname]
RECURSIVE eval_sensors(_, _, _)
eval_sensors(sensors, propset, i) ==
    IF i > Len(propset) THEN sensors
    ELSE eval_sensors(
             IF propset[i].name = NumericSensorPath
             THEN eval_sensor_info(sensors, propset[i].sensors, 1)
             ELSE IF propset[i].name \in SensorPaths
             THEN eval_hardwarestatus_info(sensors, propset[i].sensors, 1)
             ELSE sensors,
             propset, i + 1)

\* lines 253-256 keeping the record already stored under the name
store_hostdetails_first(w, s, properties, sensors) ==
    IF Plain("name") \notin DOMAIN properties THEN Raise(w, "KeyError")
    ELSE [w EXCEPT !.hd[s] = @ @@ (properties[Plain("name")][1] :>
                                     [ properties |-> properties ])]

\* lines 253-256: self.hostdetails[properties['name'][0]] =
\* {'properties': properties}; the entry 'sensors' is commented out
store_hostdetails(w, s, properties, sensors) ==
    IF Plain("name") \notin DOMAIN properties THEN Raise(w, "KeyError")
    ELSE [w EXCEPT !.hd[s] = (properties[Plain("name")][1] :>
                                [ properties |-> properties ]) @@ @]

\* the loops of lines 155 and 251: decode every object, then store a record
\* for each, for the objects from position i on
RECURSIVE index_hostdetails(_, _, _, _)
index_hostdetails(w, s, details, i) ==
    IF Pending(w) \/ i > Len(details) THEN w
    ELSE index_hostdetails(
             store_hostdetails(w, s,
                               eval_properties(<< >>, details[i].propset, 1),
                               eval_sensors(<< >>, details[i].propset, 1)),
             s, details, i + 1)

\* the decoding of __hostdetails(): the reply is in w.ret
decode_hostdetails(w, s) ==
    IF Pending(w) THEN w ELSE index_hostdetails(w, s, w.ret.details, 1)

\* __hostdetails(): self.hostdetails = {}, query, decode, index by name
hostdetails_(w, s, srv, env) ==
    IF Pending(w) THEN w
    ELSE decode_hostdetails(
             query_target([w EXCEPT !.hd[s] = << >>], s, "hostdetails", {},
                          srv, env), s)

\* "self.hostsystems[hostsystem] = name" for every host of the reply
store_hostsystems(w) ==
    IF Pending(w) THEN w ELSE [w EXCEPT !.hs = w.ret.hosts @@ @]

\* retrieve_hostsystems(): query, store the hosts, then __hostdetails()
retrieve_hostsystems(w, s, srv, srv2, env) ==
    hostdetails_(
        store_hostsystems(query_target(w, s, "hostsystems", {}, srv, env)),
        s, srv2, env)

\* the loop of retrieve_licenses() without "if total == '0': continue"
store_licenses_all(w, s) ==
    IF Pending(w) THEN w ELSE [w EXCEPT !.lic[s] = w.ret.lics]

\* the loop of retrieve_licenses(): keep the entries with total # "0"
store_licenses(w, s) ==
    IF Pending(w) THEN w
    ELSE [w EXCEPT !.lic[s] = SelectSeq(w.ret.lics, LAMBDA l : l.total # "0")]

\* retrieve_licenses(): self.licenses = [], query, store
retrieve_licenses(w, s, srv, env) ==
    store_licenses(
        query_target([w EXCEPT !.lic[s] = << >>], s, "licenses", {}, srv, env), s)

\* the loop of retrieve_datastores(): one entry per datastore
store_datastores(w, s) ==
    IF Pending(w) THEN w ELSE [w EXCEPT !.ds[s] = w.ret.stores]

\* retrieve_datastores(): self.datastores = {}, query, store
retrieve_datastores(w, s, srv, env) ==
    store_datastores(
        query_target([w EXCEPT !.ds[s] = << >>], s, "datastores", {}, srv, env), s)

----------------------------------------------------------------------------
(* Actions: one per public method *)

Idle == [ s |-> 0, op |-> "idle", exc |-> NoExc, ev |-> << >>,
          pre |-> [ sys |-> << >>, file |-> Absent, conn |-> None,
                    lic |-> << >>, cookie |-> None, failed |-> FALSE,
                    inval |-> None ] ]

\* can the cookie file be removed (asked only when there is one)
Removable == IF cookie_file.exists THEN BOOLEAN ELSE {TRUE}

\* the inputs of one call: can the server be reached when a socket has to be
\* opened, its reply to the metadata query of a connect() made inside the
\* call, and can the cookie file be removed
Envs(s) ==
    IF connection[s] = "open"
    THEN { [up |-> TRUE, meta |-> Clean, rm |-> r] : r \in Removable }
    ELSE { [up |-> FALSE, meta |-> Clean, rm |-> TRUE] } \cup
         { [up |-> TRUE, meta |-> m, rm |-> r] :
             m \in (IF connection[s] = None THEN MetaReplies ELSE {Clean}),
             r \in Removable }

\* the state after a call: the world it left and the record of the call
\* (the instances are interchangeable: the first call is made on instance 1)
Done(s, op, w) ==
    /\ last.op = "idle"
    /\ ncalls < MaxCalls
    /\ (ncalls = 0 => s = 1)
    /\ ncalls' = ncalls + 1
    /\ systeminfo' = w.sys
    /\ hostsystems' = w.hs
    /\ cookie_file' = w.file
    /\ connection' = w.conn
    /\ server_cookie' = w.cookie
    /\ last_update' = w.lu
    /\ licenses' = w.lic
    /\ datastores' = w.ds
    /\ hostdetails' = w.hd
    /\ opt_direct' = w.od
    /\ last' = [ s |-> s, op |-> op, exc |-> w.exc, ev |-> w.ev,
                 pre |-> [ sys |-> systeminfo, file |-> cookie_file,
                           conn |-> connection[s], lic |-> licenses[s],
                           cookie |-> server_cookie[s],
                           failed |-> s \in connect_failed,
                           inval |-> invalidated[s] ] ]
    /\ connect_failed' =
          IF \E i \in 1..Len(w.ev) : w.ev[i].t = "connect_raise"
          THEN connect_failed \cup {s}
          ELSE IF op = "connect" THEN connect_failed \ {s}
          ELSE connect_failed
    /\ invalidated' =
          IF \E i \in 1..Len(w.ev) : w.ev[i].t = "unlink"
          THEN [invalidated EXCEPT ![s] = CookieHeader(World, s)]
          ELSE invalidated
    /\ UNCHANGED privileged

Connect(s) ==
    \E up \in BOOLEAN :
    \E meta \in IF up THEN MetaReplies ELSE {Clean} :
    \E rm \in IF up THEN Removable ELSE {TRUE} :
        Done(s, "connect",
             connect(World, s, [up |-> up, meta |-> meta, rm |-> rm]))

Close(s) ==
    Done(s, "close", close(World, s))

RetrieveSysteminfo(s) ==
    \E env \in Envs(s), srv \in MetaReplies :
        Done(s, "retrieve_systeminfo", retrieve_systeminfo(World, s, srv, env))

RetrieveHostsystems(s) ==
    \E env \in Envs(s), srv \in HostReplies, srv2 \in DetailReplies :
        Done(s, "retrieve_hostsystems",
             retrieve_hostsystems(World, s, srv, srv2, env))

RetrieveLicenses(s) ==
    \E env \in Envs(s), srv \in LicenseReplies :
        Done(s, "retrieve_licenses", retrieve_licenses(World, s, srv, env))

RetrieveDatastores(s) ==
    \E env \in Envs(s), srv \in StoreReplies :
        Done(s, "retrieve_datastores", retrieve_datastores(World, s, srv, env))

Login(s) ==
    \E env \in Envs(s), srv \in LoginReplies :
        Done(s, "login", login(World, s, srv, env))

Logout(s) ==
    \E env \in Envs(s), srv \in Shapes :
        Done(s, "logout", logout(World, s, srv, env))

\* query_target called by a user of the class, with one of these payloads
\* and no payload_params
CallerPayloads == { "datastores", "login" }

QueryTarget(s) ==
    \E env \in Envs(s), srv \in Shapes, payload \in CallerPayloads :
        Done(s, "query_target", query_target(World, s, payload, {}, srv, env))

\* the caller takes the result, or catches the exception, and goes on
Return ==
    /\ last.op # "idle"
    /\ last' = Idle
    /\ UNCHANGED << systeminfo, hostsystems, cookie_file, connection,
                    server_cookie, last_update, licenses, datastores,
                    hostdetails, opt_direct, privileged, ncalls,
                    connect_failed, invalidated >>

\* the cookie file when the process starts: none, an empty one left by an
\* interrupted write, or the one an earlier run of the program has written
InitialFiles ==
    { Absent,
      [exists |-> TRUE, content |-> "", mode |-> DefaultMode],
      [exists |-> TRUE, content |-> "c1", mode |-> CookieMode] }

Init ==
    /\ systeminfo = << >>
    /\ hostsystems = << >>
    /\ cookie_file \in InitialFiles
    /\ connection = [s \in Sessions |-> None]
    /\ server_cookie = [s \in Sessions |-> None]
    /\ last_update = [s \in Sessions |-> None]
    /\ licenses = [s \in Sessions |-> << >>]
    /\ datastores = [s \in Sessions |-> << >>]
    /\ hostdetails = [s \in Sessions |-> << >>]
    /\ opt_direct = [s \in Sessions |-> TRUE]
    /\ privileged \in BOOLEAN
    /\ last = Idle
    /\ ncalls = 0
    /\ connect_failed = {}
    /\ invalidated = [s \in Sessions |-> None]

Next ==
    \/ \E s \in Sessions : Connect(s)
    \/ \E s \in Sessions : Close(s)
    \/ \E s \in Sessions : RetrieveSysteminfo(s)
    \/ \E s \in Sessions : RetrieveHostsystems(s)
    \/ \E s \in Sessions : RetrieveLicenses(s)
    \/ \E s \in Sessions : RetrieveDatastores(s)
    \/ \E s \in Sessions : Login(s)
    \/ \E s \in Sessions : Logout(s)
    \/ \E s \in Sessions : QueryTarget(s)
    \/ Return

Spec == Init /\ [][Next]_vars

----------------------------------------------------------------------------
(* A session that has logged in *)

\* the state after connect() and a fresh login() of the first instance that
\* was answered with the cookie "c1", and the state after a logout() that
\* followed them
InitSession ==
    /\ systeminfo = AllFields("HostAgent")
    /\ hostsystems = << >>
    /\ cookie_file \in { [exists |-> TRUE, content |-> "c1", mode |-> CookieMode],
                         Absent }
    /\ connection = [s \in Sessions |-> IF s = 1 THEN "open" ELSE None]
    /\ server_cookie = [s \in Sessions |-> IF s = 1 THEN "c1" ELSE None]
    /\ last_update = [s \in Sessions |-> None]
    /\ licenses = [s \in Sessions |-> << >>]
    /\ datastores = [s \in Sessions |-> << >>]
    /\ hostdetails = [s \in Sessions |-> << >>]
    /\ opt_direct = [s \in Sessions |-> TRUE]
    /\ privileged \in BOOLEAN
    /\ last = Idle
    /\ ncalls = 0
    /\ connect_failed = {}
    /\ invalidated = [s \in Sessions |->
                        IF s = 1 /\ ~ cookie_file.exists THEN "c1" ELSE None]

SpecSession == InitSession /\ [][Next]_vars

----------------------------------------------------------------------------
(* The decoding of host details: a connected session decodes one reply *)

\* the sequences over S of length 0 .. n
SeqsUpTo(S, n) == UNION { [1..k -> S] : k \in 0..n }

\* what the pattern of eval_multipath_state finds: the adapter number and
\* the last part of the path name, and the path state
Path(hba, lun, state) == [ hba |-> hba, lun |-> lun, state |-> state ]

\* what the pattern of eval_systeminfo_other finds
Id(value, key) == [ value |-> value, key |-> key ]

\* objects with a name and one multipath entry, for every adapter number
MultipathBlocks ==
    { << PropSet("name", "esx1"),
         [PropSet(MultipathPath, "") EXCEPT
             !.paths = << Path(n, "L0", "active") >>] >> : n \in 0..MaxSuffix }

\* objects with a name and one block of identifiers
OtherInfoBlocks ==
    { << PropSet("name", "esx1"),
         [PropSet(OtherInfoPath, "") EXCEPT !.ids = q] >> :
        q \in SeqsUpTo({ Id(v, k) : v \in {"v1", "v2"},
                                    k \in {"AssetTag", "ServiceTag"} },
                       MaxItems) }

\* objects whose properties all have no decoder of their own
FallbackBlocks ==
    SeqsUpTo({ PropSet(n, v) : n \in {"name", "overallStatus"},
                               v \in {"esx1", "green"} },
             MaxItems)

\* objects with a name and one multipath entry of several paths
MultipathSeqBlocks ==
    { << PropSet("name", "esx1"),
         [PropSet(MultipathPath, "") EXCEPT !.paths = q] >> :
        q \in SeqsUpTo({ Path(n, l, st) : n \in {0, 33}, l \in {"L0", "L1"},
                                          st \in {"active", "dead"} },
                       MaxItems) }

\* objects to which the path of the identifiers is delivered twice
OtherInfoTwiceBlocks ==
    { << PropSet("name", "esx1"),
         [PropSet(OtherInfoPath, "") EXCEPT !.ids = << i1 >>],
         [PropSet(OtherInfoPath, "") EXCEPT !.ids = << i2 >>] >> :
        i1 \in { Id("v1", k) : k \in {"AssetTag", "ServiceTag"} },
        i2 \in { Id("v2", k) : k \in {"AssetTag", "ServiceTag"} } }

\* what the sensor patterns find in one entry
Sensor(name, summary, reading) ==
    [ name |-> name, label |-> name, summary |-> summary, key |-> "k",
      reading |-> reading ]

\* objects with a name and one property of sensors
SensorBlocks ==
    { << PropSet("name", "esx1"), [PropSet(n, "") EXCEPT !.sensors = q] >> :
        n \in { NumericSensorPath,
                "runtime.healthSystemRuntime.hardwareStatusInfo.cpuStatusInfo" },
        q \in SeqsUpTo({ Sensor(sn, su, "40") : sn \in {"fan", "temp"},
                                                su \in {"ok", "bad"} },
                       MaxItems - 1) }

\* what the pattern of eval_cpu_pkg finds in one entry
CpuPkg(index, vendor) ==
    [ e \in {"index", "vendor", "hz", "busHz", "description"} |->
        CASE e = "index" -> index
          [] e = "vendor" -> vendor
          [] OTHER -> "x" ]

\* what the pattern of eval_pci_device finds in one entry
PciDevice(id, deviceName) ==
    [ e \in {"id", "vendorName", "deviceName"} |->
        CASE e = "id" -> id
          [] e = "deviceName" -> deviceName
          [] OTHER -> "x" ]

\* objects with a name and one block of CPU packages or of PCI devices
IndexedBlocks ==
    { << PropSet("name", "esx1"),
         [PropSet(CpuPkgPath, "") EXCEPT !.entries = q] >> :
        q \in SeqsUpTo({ CpuPkg(i, v) : i \in {"0", "1"},
                                        v \in {"intel", "amd"} },
                       MaxItems - 1) }
    \cup
    { << PropSet("name", "esx1"),
         [PropSet(PciDevicePath, "") EXCEPT !.entries = q] >> :
        q \in SeqsUpTo({ PciDevice(i, d) : i \in {"00:01", "00:02"},
                                           d \in {"nic", "hba"} },
                       MaxItems - 1) }

\* replies with two hosts: equal or different names, equal or different
\* values of another property
TwoHostReplies ==
    { [Clean EXCEPT !.details =
          << Obj("host-1", << PropSet("name", n1),
                              PropSet("overallStatus", v1) >>),
             Obj("host-2", << PropSet("name", n2),
                              PropSet("overallStatus", v2) >>) >>] :
        n1 \in {"esx1", "esx2"}, n2 \in {"esx1", "esx2"},
        v1 \in {"green", "red"}, v2 \in {"green", "red"} }

DecodeReplies ==
    { [Clean EXCEPT !.details = << Obj("host-1", b) >>] :
        b \in MultipathBlocks \cup MultipathSeqBlocks \cup OtherInfoBlocks
                \cup OtherInfoTwiceBlocks \cup SensorBlocks \cup IndexedBlocks
                \cup FallbackBlocks }
    \cup TwoHostReplies

\* the state after a successful connect() of the first instance
InitConnected ==
    /\ systeminfo = AllFields("HostAgent")
    /\ hostsystems = << >>
    /\ cookie_file = Absent
    /\ connection = [s \in Sessions |-> IF s = 1 THEN "open" ELSE None]
    /\ server_cookie = [s \in Sessions |-> None]
    /\ last_update = [s \in Sessions |-> None]
    /\ licenses = [s \in Sessions |-> << >>]
    /\ datastores = [s \in Sessions |-> << >>]
    /\ hostdetails = [s \in Sessions |-> << >>]
    /\ opt_direct = [s \in Sessions |-> TRUE]
    /\ privileged = FALSE
    /\ last = Idle
    /\ ncalls = 0
    /\ connect_failed = {}
    /\ invalidated = [s \in Sessions |-> None]

\* retrieve_hostsystems() as the first call, with one host in the list
DecodeHostsystems(s) ==
    /\ ncalls = 0
    /\ \E srv2 \in DecodeReplies :
         Done(s, "retrieve_hostsystems",
              retrieve_hostsystems(
                  World, s,
                  [Clean EXCEPT !.hosts = [o \in {"host-1"} |-> "esx1"]],
                  srv2, [up |-> TRUE, meta |-> Clean, rm |-> TRUE]))

NextDecode ==
    \/ \E s \in Sessions : DecodeHostsystems(s)
    \/ Return

SpecDecode == InitConnected /\ [][NextDecode]_vars

----------------------------------------------------------------------------
(* Properties.  They are stated over the record of the last call: the     *)
(* events last.ev it produced, its outcome last.exc and the state it left. *)

EvIdx == 1..Len(last.ev)
IsResp(i) == last.ev[i].t = "resp"
IsReq(i) == last.ev[i].t = "req"
\* number of requests with the given payload sent after event i
ReqsAfter(i, kind) ==
    Cardinality({ j \in EvIdx : j > i /\ IsReq(j) /\ last.ev[j].kind = kind })
AnyReq == \E j \in EvIdx : IsReq(j)
\* query_target has raised x (logout() catches what it raises)
QueryRaised(x) ==
    \/ last.exc = x
    \/ \E j \in EvIdx : last.ev[j].t = "swallow" /\ last.ev[j].kind = x

\* C1 (as claimed): a first response with marker B and without marker A is
\* followed by the removal of the cookie, exactly one Login request and
\* exactly one more request with the same payload.
C1_RetryOnce ==
    \A i \in EvIdx :
        (IsResp(i) /\ last.ev[i].reply.offB >= 0 /\ last.ev[i].reply.offA < 0)
        => /\ ReqsAfter(i, "login") = 1
           /\ ReqsAfter(i, last.ev[i].kind) >= 1

\* C2 (as claimed): a first response that contains marker A anywhere makes
\* query_target raise QueryServerException and nothing is sent afterwards.
C2_FatalAnywhere ==
    \A i \in EvIdx :
        (IsResp(i) /\ last.ev[i].reply.offA >= 0)
        => /\ QueryRaised("QueryServerException")
           /\ \A j \in EvIdx : j > i => ~ IsReq(j)

\* C2 (amended): a first response with marker A within its first 512 bytes
\* makes query_target raise QueryServerException; after that response no
\* request (so no Login request either) is sent, whatever the payload and
\* the state of the session.
C2_FatalInPrefix ==
    \A i \in EvIdx :
        (IsResp(i) /\ InPrefix(last.ev[i].reply.offA, LenMarkerA))
        => /\ QueryRaised("QueryServerException")
           /\ \A j \in EvIdx : j > i => ~ IsReq(j)

C2_Witness ==
    \E i \in EvIdx :
        /\ IsResp(i) /\ InPrefix(last.ev[i].reply.offA, LenMarkerA)
        /\ last.ev[i].kind = "datastores"
        /\ last.exc = "QueryServerException"
        /\ server_cookie[last.s] = "c1"

\* C3 (as claimed): a query for which the server has N pages is answered
\* with N requests (N-1 continuation requests after the first response)
\* and the pagination does not fail.
C3_DrainsAllPages ==
    \A i \in EvIdx :
        (IsResp(i) /\ (last.ev[i].reply.npages > 1
                          => InPrefix(last.ev[i].reply.offTok, LenToken)))
        => /\ ReqsAfter(i, "continue") = last.ev[i].reply.npages - 1
           /\ ~ QueryRaised("NameError")

\* C4 (as claimed): login() with an existing, non-empty cookie file sends nothing,
\* succeeds, sets server_cookie to the content of the file, and that value
\* is what the Cookie header of the next requests carries.
C4_CookieFromFile ==
    (last.op = "login" /\ last.pre.file.exists /\ last.pre.file.content # "")
    => /\ ~ AnyReq
       /\ last.exc = NoExc
       /\ server_cookie[last.s] = last.pre.file.content
       /\ CookieHeader(World, last.s) = last.pre.file.content

\* C5 (as claimed): a login() that finds no cookie file or an empty one,
\* and returns, has sent exactly one Login request, and the cookie of the
\* reply is what the file holds afterwards.
C5_FreshLogin ==
    (/\ last.op = "login" /\ last.exc = NoExc
     /\ (~ last.pre.file.exists \/ last.pre.file.content = ""))
    => /\ Cardinality({ j \in EvIdx : IsReq(j) /\ last.ev[j].kind = "login" }) = 1
       /\ \A i \in EvIdx :
            (IsResp(i) /\ last.ev[i].kind = "login"
               /\ ~ last.ev[i].reply.invalid
               /\ last.ev[i].reply.setcookie # None)
            => cookie_file.content = last.ev[i].reply.setcookie

\* C6 (as claimed): a Login reply with "InvalidLogin" makes login() raise;
\* one Login request was sent, no cookie is set and no file written.
C6_InvalidLoginRaises ==
    \A i \in EvIdx :
        (last.op = "login" /\ IsResp(i) /\ last.ev[i].kind = "login"
           /\ last.ev[i].reply.invalid)
        => /\ last.exc # NoExc
           /\ ReqsAfter(i, "login") = 0
           /\ server_cookie[last.s] = None
           /\ cookie_file = last.pre.file

\* C7 (as claimed): a call on one instance changes nothing of what another
\* instance shows as systeminfo, hostsystems, licenses, datastores and
\* hostdetails.
C7_NoSharedState ==
    [][ \A s \in Sessions :
          (last'.op # "idle" /\ last'.s # s)
          => /\ systeminfo' = systeminfo
             /\ hostsystems' = hostsystems
             /\ licenses'[s] = licenses[s]
             /\ datastores'[s] = datastores[s]
             /\ hostdetails'[s] = hostdetails[s] ]_vars

\* C8 (as claimed): connect() fails, and leaves the transport closed, when
\* the metadata reply it reads carries none of the fields.
C8_EmptyMetadataFails ==
    \A i \in EvIdx :
        (last.op = "connect" /\ IsResp(i) /\ last.ev[i].kind = "systeminfo"
           /\ DOMAIN last.ev[i].reply.fields = {})
        => /\ last.exc # NoExc
           /\ connection[last.s] = "closed"

\* C9: whenever connect() raises (called by the user or from query_target),
\* close() has been called on the connection just before, and the
\* connection is closed in the state the caller gets.
C9_CloseBeforeRaise ==
    \A i \in EvIdx :
        last.ev[i].t = "connect_raise"
        => /\ i > 1 /\ last.ev[i - 1].t = "close"
           /\ connection[last.s] = "closed"

C9_Witness ==
    /\ last.op = "connect" /\ last.exc = "KeyError"
    /\ AnyReq
    /\ \E i \in EvIdx : last.ev[i].t = "connect_raise"
    /\ connection[last.s] = "closed"

\* C10 (as claimed): a call that has sent a query and ends with an error
\* leaves the connection closed.
C10_ClosedAfterQueryError ==
    (last.exc # NoExc /\ AnyReq) => connection[last.s] # "open"

----------------------------------------------------------------------------
(* Inventory, logout, invalidation and close *)

\* the reply has been accepted by query_target: no marker and no token in
\* the inspected prefix
Accepted(r) ==
    /\ ~ InPrefix(r.offA, LenMarkerA)
    /\ ~ InPrefix(r.offB, LenMarkerB)
    /\ ~ InPrefix(r.offTok, LenToken)

\* the call has failed in one of its queries, not while decoding a reply
QueryFailed ==
    /\ last.exc # NoExc
    /\ ~ \E i \in EvIdx :
           /\ IsResp(i) /\ last.ev[i].kind = "hostdetails"
           /\ Accepted(last.ev[i].reply)

\* os.unlink has refused to remove the cookie file during the call
UnlinkFailed == \E i \in EvIdx : last.ev[i].t = "unlink_failed"

\* C11 (as claimed): after a retrieve_hostsystems, retrieve_licenses or
\* retrieve_datastores whose query has failed, the collection of that call
\* (hostsystems and hostdetails, licenses, datastores) is empty.
C11_NoRecordsOnFailure ==
    /\ (last.op = "retrieve_licenses" /\ last.exc # NoExc)
          => licenses[last.s] = << >>
    /\ (last.op = "retrieve_datastores" /\ last.exc # NoExc)
          => datastores[last.s] = << >>
    /\ (last.op = "retrieve_hostsystems" /\ QueryFailed)
          => /\ DOMAIN hostsystems = {}
             /\ DOMAIN hostdetails[last.s] = {}

\* C12: logout() returns normally, whether its query was sent or not,
\* answered or not, and whether the cookie file could be removed or not.
C12_LogoutNeverRaises ==
    last.op = "logout" => last.exc = NoExc

C12_Witness ==
    /\ last.op = "logout" /\ last.exc = NoExc
    /\ UnlinkFailed
    /\ \E i \in EvIdx : last.ev[i].t = "swallow"
                          /\ last.ev[i].kind = "PermissionError"

\* C13 (as claimed): after logout() the cookie file does not exist (unless
\* the file system has refused to remove it).
C13_NoFileAfterLogout ==
    (last.op = "logout" /\ ~ UnlinkFailed) => ~ cookie_file.exists

\* C14 (as claimed): after a call in which a response carried one of the
\* two fault markers in the inspected prefix, the cookie file does not exist
\* (unless the file system has refused to remove it).
C14_NoFileAfterFault ==
    \A i \in EvIdx :
        (/\ IsResp(i)
         /\ \/ InPrefix(last.ev[i].reply.offA, LenMarkerA)
            \/ InPrefix(last.ev[i].reply.offB, LenMarkerB)
         /\ ~ UnlinkFailed)
        => ~ cookie_file.exists

\* C15: close() never raises and leaves the connection of the instance not
\* open, whatever the state before: never connected, connected, closed, or
\* left open by a failed call.
C15_CloseSafe ==
    last.op = "close" => /\ last.exc = NoExc
                         /\ connection[last.s] # "open"
                         /\ last.pre.conn = None => connection[last.s] = None
                         /\ last.pre.conn # None => connection[last.s] = "closed"

C15_Witness ==
    /\ last.op = "close" /\ last.exc = NoExc
    /\ last.pre.conn = "open"
    /\ connection[last.s] = "closed"

----------------------------------------------------------------------------
(* Decoding of host details *)

\* the objects of the host details reply the call has read
DecodedObjects ==
    UNION { { last.ev[i].reply.details[k] :
                k \in 1..Len(last.ev[i].reply.details) } :
            i \in { j \in EvIdx : IsResp(j) /\ last.ev[j].kind = "hostdetails" } }

PropIdx(b) == 1..Len(b.propset)
HasName(b) == \E k \in PropIdx(b) : b.propset[k].name = "name"
\* the first value of the property "name" of the object
NameOf(b) ==
    b.propset[CHOOSE k \in PropIdx(b) :
                 /\ b.propset[k].name = "name"
                 /\ \A j \in 1..(k - 1) : b.propset[j].name # "name"].text
\* a later object of the same reply reports the name of the object
Superseded(b) ==
    \E i \in { j \in EvIdx : IsResp(j) /\ last.ev[j].kind = "hostdetails" } :
        LET details == last.ev[i].reply.details IN
        \E k \in 1..Len(details), m \in 1..Len(details) :
            /\ k < m /\ details[k] = b
            /\ HasName(details[m]) /\ NameOf(details[m]) = NameOf(b)
\* the call has returned and the record under the name is that of the object
Stored(b) ==
    /\ last.op = "retrieve_hostsystems" /\ last.exc = NoExc
    /\ HasName(b)
    /\ NameOf(b) \in DOMAIN hostdetails[last.s]
    /\ ~ Superseded(b)
\* the properties of that record
RecordOf(b) == hostdetails[last.s][NameOf(b)].properties

\* the multipath entries of the object
PathsOf(b) ==
    UNION { { b.propset[k].paths[m] : m \in 1..Len(b.propset[k].paths) } :
            k \in { j \in PropIdx(b) : b.propset[j].name = MultipathPath } }

\* the labels under which the record lists the adapter of path q for its LUN
LabelsOf(b, q) ==
    LET luns == Get(RecordOf(b), Plain(MultipathPath), << >>)
    IN  { l \in {"physical", "logical", "pseudo-logical"} :
            /\ << q.lun, l >> \in DOMAIN luns
            /\ \E a \in 1..Len(luns[<< q.lun, l >>].adapters) :
                  luns[<< q.lun, l >>].adapters[a] = << q.hba, q.lun >> }

\* C16 (as claimed): adapter number 0 is labelled physical, 65 logical and
\* 96 pseudo-logical.
C16_TestPoints ==
    \A b \in DecodedObjects : Stored(b) =>
        \A q \in PathsOf(b) :
            /\ q.hba = 0 => LabelsOf(b, q) = {"physical"}
            /\ q.hba = 65 => LabelsOf(b, q) = {"logical"}
            /\ q.hba = 96 => LabelsOf(b, q) = {"pseudo-logical"}

\* C16 (amended): adapter number 0 is labelled physical, 65 pseudo-logical
\* and 96 pseudo-logical.
C16_TestPointsOfCode ==
    \A b \in DecodedObjects : Stored(b) =>
        \A q \in PathsOf(b) :
            /\ q.hba = 0 => LabelsOf(b, q) = {"physical"}
            /\ q.hba = 65 => LabelsOf(b, q) = {"pseudo-logical"}
            /\ q.hba = 96 => LabelsOf(b, q) = {"pseudo-logical"}

C16_Witness ==
    \E b \in DecodedObjects :
        /\ Stored(b)
        /\ \E q \in PathsOf(b) :
              q.hba = 65 /\ LabelsOf(b, q) = {"pseudo-logical"}

\* the label the stated rule gives: the two tests apply within [32, 96)
StatedLabel(n) ==
    IF 32 <= n /\ n < 96 /\ n % 64 < 33 THEN "pseudo-logical"
    ELSE IF 32 <= n /\ n < 96 /\ n % 64 > 32 THEN "logical"
    ELSE "physical"

\* C17 (as claimed): every adapter number gets the label of the stated
\* rule, physical for every number from 96 on.
C17_StatedRule ==
    \A b \in DecodedObjects : Stored(b) =>
        \A q \in PathsOf(b) : LabelsOf(b, q) = {StatedLabel(q.hba)}

\* C17 (amended): an adapter number n is labelled physical iff n <= 31,
\* pseudo-logical iff n >= 32 and n mod 64 is in 0..32, logical iff n >= 32
\* and n mod 64 is in 33..63; there is no upper limit.
C17_RuleWithoutLimit ==
    \A b \in DecodedObjects : Stored(b) =>
        \A q \in PathsOf(b) :
            /\ Cardinality(LabelsOf(b, q)) = 1
            /\ "physical" \in LabelsOf(b, q) <=> q.hba \in 0..31
            /\ "pseudo-logical" \in LabelsOf(b, q)
                  <=> (q.hba >= 32 /\ q.hba % 64 \in 0..32)
            /\ "logical" \in LabelsOf(b, q)
                  <=> (q.hba >= 32 /\ q.hba % 64 \in 33..63)

C17_Witness ==
    \E b \in DecodedObjects :
        /\ Stored(b)
        /\ \E q \in PathsOf(b) : q.hba = 100 /\ LabelsOf(b, q) = {"logical"}

\* the identifier blocks of the object
IdBlocksOf(b) == { k \in PropIdx(b) : b.propset[k].name = OtherInfoPath }
\* the keys of the record made for identifiers
IdKeysOf(b) == { key \in DOMAIN RecordOf(b) : key[1] = OtherInfoPath /\ key[2] # "" }
\* number of identifiers before position m of the block with the key of m
Earlier(ids, m) ==
    Cardinality({ j \in 1..(m - 1) : ids[j].key = ids[m].key })

\* C18: for an object with one block of identifiers, the k-th occurrence
\* (from 0) of key K is stored under the path made of K and k, as the list
\* of exactly its value, and the record has one such path per identifier.
C18_IdentifiersIndexed ==
    \A b \in DecodedObjects : (Stored(b) /\ Cardinality(IdBlocksOf(b)) = 1) =>
        \A k \in IdBlocksOf(b) :
            LET ids == b.propset[k].ids IN
            /\ \A m \in 1..Len(ids) :
                 /\ Key(OtherInfoPath, ids[m].key, ToString(Earlier(ids, m)))
                       \in DOMAIN RecordOf(b)
                 /\ RecordOf(b)[Key(OtherInfoPath, ids[m].key,
                                    ToString(Earlier(ids, m)))]
                       = << ids[m].value >>
            /\ Cardinality(IdKeysOf(b)) = Len(ids)

C18_Witness ==
    \E b \in DecodedObjects :
        /\ Stored(b)
        /\ Key(OtherInfoPath, "AssetTag", "0") \in DOMAIN RecordOf(b)
        /\ Key(OtherInfoPath, "AssetTag", "1") \in DOMAIN RecordOf(b)
        /\ RecordOf(b)[Key(OtherInfoPath, "AssetTag", "0")] = << "v1" >>
        /\ RecordOf(b)[Key(OtherInfoPath, "AssetTag", "1")] = << "v2" >>

DispatchTable ==
    { MultipathPath, OtherInfoPath, CpuPkgPath, PciDevicePath } \cup SensorPaths
\* the object has only properties without a decoder of their own
OnlyUnrecognized(b) == \A k \in PropIdx(b) : b.propset[k].name \notin DispatchTable
\* the raw values of the property n of the object, in the order received
ValuesOf(b, n) ==
    LET occ == SelectSeq(b.propset, LAMBDA p : p.name = n)
    IN  [ i \in 1..Len(occ) |-> occ[i].text ]

\* C19: the record of an object that has only properties without a decoder
\* maps each of its paths, and nothing else, to the sequence of the raw
\* values of the path in the order received, duplicates kept.
C19_FallbackVerbatim ==
    \A b \in DecodedObjects : (Stored(b) /\ OnlyUnrecognized(b)) =>
        /\ DOMAIN RecordOf(b) = { Plain(b.propset[k].name) : k \in PropIdx(b) }
        /\ \A k \in PropIdx(b) :
              RecordOf(b)[Plain(b.propset[k].name)]
                 = ValuesOf(b, b.propset[k].name)

C19_Witness ==
    \E b \in DecodedObjects :
        /\ Stored(b) /\ OnlyUnrecognized(b)
        /\ Get(RecordOf(b), Plain("overallStatus"), << >>)
              = << "green", "green" >>

\* C20: after a retrieve_licenses() that returns, licenses is the sequence
\* of the entries of the reply of this call whose total is not "0", in the
\* order of the reply and unchanged.
C20_LicensesOfLatestReply ==
    (last.op = "retrieve_licenses" /\ last.exc = NoExc)
    => \E i \in EvIdx :
          /\ IsResp(i) /\ last.ev[i].kind = "licenses"
          /\ licenses[last.s]
                = SelectSeq(last.ev[i].reply.lics, LAMBDA l : l.total # "0")

C20_Witness ==
    /\ last.op = "retrieve_licenses" /\ last.exc = NoExc
    /\ last.pre.lic = << Lic("std", "3", "10") >>
    /\ licenses[last.s] = << Lic("std", "3", "10"), Lic("ent", "1", "5") >>

----------------------------------------------------------------------------
(* The cookie file, repeated blocks, sensors and the index of the records *)

\* read and write for the owner and no other bit: octal 600
OwnerOnly == 6 * 64

\* C21 (as claimed): after a login() that has written the cookie file, the
\* mode of the file is octal 600.
C21_OwnerOnlyMode ==
    (last.op = "login" /\ \E i \in EvIdx : last.ev[i].t = "write")
    => cookie_file.mode = OwnerOnly

\* the identifiers of all the blocks of identifiers of an object, in the
\* order received, from propSet i on
RECURSIVE IdsFrom(_, _)
IdsFrom(propset, i) ==
    IF i > Len(propset) THEN << >>
    ELSE (IF propset[i].name = OtherInfoPath THEN propset[i].ids ELSE << >>)
         \o IdsFrom(propset, i + 1)

\* C22 (as claimed): when the path of the identifiers is delivered more than
\* once for an object, the k-th occurrence (from 0, over all the blocks) of
\* key K is stored under the path made of K and k as the list of its value,
\* and the record has one such path per identifier.
C22_CounterAcrossHost ==
    \A b \in DecodedObjects : (Stored(b) /\ Cardinality(IdBlocksOf(b)) > 1) =>
        LET ids == IdsFrom(b.propset, 1) IN
        /\ \A m \in 1..Len(ids) :
             /\ Key(OtherInfoPath, ids[m].key, ToString(Earlier(ids, m)))
                   \in DOMAIN RecordOf(b)
             /\ RecordOf(b)[Key(OtherInfoPath, ids[m].key,
                                ToString(Earlier(ids, m)))]
                   = << ids[m].value >>
        /\ Cardinality(IdKeysOf(b)) = Len(ids)

\* the sensor entries of all the sensor properties of an object, in the
\* order received, from propSet i on
RECURSIVE SensorsFrom(_, _)
SensorsFrom(propset, i) ==
    IF i > Len(propset) THEN << >>
    ELSE (IF propset[i].name \in SensorPaths THEN propset[i].sensors ELSE << >>)
         \o SensorsFrom(propset, i + 1)

\* C23 (as claimed): the record of an object with sensor entries has the
\* sensors, keyed by sensor name, each name holding what the last entry of
\* that name carried.
C23_SensorsInRecord ==
    \A b \in DecodedObjects :
        (Stored(b) /\ Len(SensorsFrom(b.propset, 1)) > 0) =>
        LET rec == hostdetails[last.s][NameOf(b)]
            found == SensorsFrom(b.propset, 1)
        IN  /\ "sensors" \in DOMAIN rec
            /\ \A m \in 1..Len(found) :
                 (\A j \in (m + 1)..Len(found) : found[j].name # found[m].name)
                 => /\ found[m].name \in DOMAIN rec.sensors
                    /\ rec.sensors[found[m].name].summary = found[m].summary

\* the replies with host details read by the call
DetailResps ==
    { i \in EvIdx : IsResp(i) /\ last.ev[i].kind = "hostdetails" }

\* C24: after retrieve_hostsystems() has returned, hostdetails has one
\* record per distinct value of the property "name" among the objects of
\* the reply (each object having its own reference), keyed by that value,
\* and the record of a name holds the properties of the last object of the
\* reply that reports the name.
C24_IndexedByName ==
    (last.op = "retrieve_hostsystems" /\ last.exc = NoExc) =>
    \A i \in DetailResps :
        LET details == last.ev[i].reply.details IN
        /\ DOMAIN hostdetails[last.s]
              = { NameOf(details[k]) : k \in 1..Len(details) }
        /\ \A k \in 1..Len(details) :
              (\A m \in (k + 1)..Len(details) :
                   NameOf(details[m]) # NameOf(details[k]))
              => hostdetails[last.s][NameOf(details[k])].properties
                    = eval_properties(<< >>, details[k].propset, 1)

C24_Witness ==
    /\ last.op = "retrieve_hostsystems" /\ last.exc = NoExc
    /\ \E i \in DetailResps :
         LET details == last.ev[i].reply.details IN
         /\ Len(details) = 2
         /\ details[1].obj # details[2].obj
         /\ NameOf(details[1]) = "esx1" /\ NameOf(details[2]) = "esx1"
         /\ ValuesOf(details[1], "overallStatus") = << "green" >>
         /\ ValuesOf(details[2], "overallStatus") = << "red" >>
    /\ DOMAIN hostdetails[last.s] = {"esx1"}
    /\ hostdetails[last.s]["esx1"].properties[Plain("overallStatus")]
          = << "red" >>

\* C25 (as claimed): every key made of the path of the CPU packages or of
\* the PCI devices, a sub-field and an id maps to a list of one element.
C25_OneElement ==
    \A b \in DecodedObjects : Stored(b) =>
        \A key \in DOMAIN RecordOf(b) :
            (key[1] \in {CpuPkgPath, PciDevicePath} /\ key[2] # "")
            => Len(RecordOf(b)[key]) = 1

\* the sum of the counts f[x] for x in S
RECURSIVE SumCounts(_, _)
SumCounts(f, S) ==
    IF S = {} THEN 0
    ELSE LET x == CHOOSE y \in S : TRUE
         IN  f[x] + SumCounts(f, S \ {x})

\* the multipath blocks of the object
PathBlocksOf(b) == { k \in PropIdx(b) : b.propset[k].name = MultipathPath }

\* C26: for an object with one multipath block, the record has one entry per
\* labelled LUN id of the block; the adapters of an entry are the names of
\* the paths of the block with that labelled LUN id, in the order of the
\* block; each state is counted as often as it occurs among them, and the
\* counts of an entry add up to the length of its adapters.
C26_MultipathAccumulation ==
    \A b \in DecodedObjects :
        (Stored(b) /\ Cardinality(PathBlocksOf(b)) = 1) =>
        LET paths == b.propset[CHOOSE k \in PathBlocksOf(b) : TRUE].paths
            luns == Get(RecordOf(b), Plain(MultipathPath), << >>)
        IN  /\ DOMAIN luns = { << paths[m].lun, lun_label(paths[m].hba) >> :
                                 m \in 1..Len(paths) }
            /\ \A id \in DOMAIN luns :
                 LET from == SelectSeq(paths,
                                LAMBDA p : << p.lun, lun_label(p.hba) >> = id)
                 IN  /\ luns[id].adapters
                           = [ m \in 1..Len(from) |->
                                 << from[m].hba, from[m].lun >> ]
                     /\ \A st \in DOMAIN luns[id].states :
                           luns[id].states[st]
                              = Len(SelectSeq(from, LAMBDA p : p.state = st))
                     /\ SumCounts(luns[id].states, DOMAIN luns[id].states)
                           = Len(luns[id].adapters)

C26_Witness ==
    \E b \in DecodedObjects :
        /\ Stored(b) /\ Cardinality(PathBlocksOf(b)) = 1
        /\ << "L0", "physical" >>
              \in DOMAIN Get(RecordOf(b), Plain(MultipathPath), << >>)
        /\ LET lun == RecordOf(b)[Plain(MultipathPath)][<< "L0", "physical" >>]
           IN  /\ Len(lun.adapters) = 3
               /\ lun.states = [ st \in {"active", "dead"} |->
                                   IF st = "active" THEN 2 ELSE 1 ]

----------------------------------------------------------------------------
(* Order of the requests, and the cookie after its file is removed *)

\* the metadata held when event i happened: what the call found, or what a
\* reply to the metadata query has brought since
PopulatedAt(i) ==
    \/ DOMAIN last.pre.sys # {}
    \/ \E j \in 1..(i - 1) :
          /\ IsResp(j) /\ last.ev[j].kind = "systeminfo"
          /\ DOMAIN last.ev[j].reply.fields # {}

\* no request other than the metadata query goes out without metadata
MetadataFirst ==
    \A i \in EvIdx :
        (IsReq(i) /\ last.ev[i].kind # "systeminfo") => PopulatedAt(i)

\* a call that sends something on an instance that never connected starts
\* by connecting and asking for the metadata
ConnectsFirst ==
    (last.pre.conn = None /\ AnyReq)
    => /\ last.ev[1].t = "connect"
       /\ IsReq(2) /\ last.ev[2].kind = "systeminfo"

\* a call on an instance whose latest connect() has raised sends no request
\* other than the metadata query
NothingAfterFailedConnect ==
    (last.pre.failed /\ last.op # "connect")
    => \A i \in EvIdx : IsReq(i) => last.ev[i].kind = "systeminfo"

\* C27 (as claimed): no request other than the metadata query is sent
\* without metadata, a query on an instance that never connected connects
\* and fetches the metadata first, and after a failed connect() no login,
\* logout or inventory request goes out.
C27_Ordering ==
    /\ MetadataFirst
    /\ ConnectsFirst
    /\ NothingAfterFailedConnect

\* the cookie file has been removed during the call
Unlinked == \E i \in EvIdx : last.ev[i].t = "unlink"

\* the removal of the cookie file leaves the cookie of the instance as it was
CookieKeptInMemory ==
    Unlinked => server_cookie[last.s] = last.pre.cookie

\* C28 (as claimed): the removal of the cookie file leaves the cookie of the
\* instance as it was, and every request the instance sends in a later call
\* carries the cookie it held when it removed the file.
C28_AlwaysInvalidatedCookie ==
    /\ CookieKeptInMemory
    /\ last.pre.inval # None
          => \A i \in EvIdx : IsReq(i) => last.ev[i].cookie = last.pre.inval

\* C28 (amended): the removal of the cookie file leaves the cookie of the
\* instance as it was; only login() changes the cookie of an instance; and
\* every request of a later call carries the cookie the instance held when
\* it removed the file, as long as no login() has replaced that cookie.
C28_InvalidatedCookieUntilLogin ==
    /\ CookieKeptInMemory
    /\ last.op \notin {"idle", "login"}
          => server_cookie[last.s] = last.pre.cookie
    /\ (last.pre.inval # None /\ last.pre.cookie = last.pre.inval)
          => \A i \in EvIdx : IsReq(i) => last.ev[i].cookie = last.pre.inval

C28_Witness ==
    /\ last.op = "retrieve_datastores"
    /\ last.pre.inval = "c1" /\ last.pre.cookie = "c1"
    /\ ~ last.pre.file.exists
    /\ \E i \in EvIdx :
          /\ IsReq(i) /\ last.ev[i].kind = "datastores"
          /\ last.ev[i].cookie = "c1"
    /\ ncalls = 2

====
